---- MODULE Spec2Model ----
(***************************************************************************)
(* Model of pressure_monitor (src/src/main.rs): an MQTT network thread     *)
(* decodes 4-byte payloads and sends them over an mpsc channel to the      *)
(* render loop of main, which keeps a sliding window of (timestamp, value) *)
(* samples, redraws a chart, exports it to CSV on the S key and presents   *)
(* the pixel buffer to a minifb window.                                    *)
(*                                                                         *)
(* Time is counted in whole seconds, pressures are the integers an i32     *)
(* converts to exactly as f64.                                             *)
(***************************************************************************)
EXTENDS Integers, Sequences, FiniteSets, TLC

\* ------------------------------------------------------------------ bounds
\* capacity constant of the window (1000 in the program)
DATA_LENGTH == 2
\* number of notifications the MQTT connection delivers
MaxEvents == 4
\* SystemTime::now() returns a reading in 0..MaxClock
MaxClock == 1
\* number of sends whose instant is put on record
MaxStamps == 2

\* --------------------------------------------------------------- constants
Header == <<"Time(s)", "Pressure(Pa)">>
\* the file does not exist: no row, not even the header
NoFile == << <<"no file">> >>
\* the window has been given no buffer yet
NothingShown == << <<>> >>
NoPressure == 0

\* payloads the broker publishes: 100000, -1, a 3-byte and a 5-byte payload
Payloads ==
    { <<160, 134, 1, 0>>, <<255, 255, 255, 255>>, <<160, 134, 1>>, <<160, 134, 1, 0, 0>> }

\* keys get_keys_pressed can report; any key but S takes the `_ => continue`
\* arm of lines 188-190, which does nothing, so S stands alone
Keys == {"S"}
Clock == 0..MaxClock

VARIABLES
    netState,       \* network thread: "running" or "panicked"
    events,         \* notifications delivered so far
    sendResult,     \* Result of the latest tx.send: "none", "ok" or "err"
    chan,           \* mpsc channel: queued f64 values, oldest first
    rxAlive,        \* the Receiver has not been dropped
    pc,             \* position of main in the render loop
    pressure,       \* value bound by `if let Ok(pressure)`, until it is pushed
    data,           \* Vec<(SystemTime, f64)>, records [ts, v]
    start_ts,       \* epoch reference
    chart_data,     \* Vec<(f64, f64)> of the current iteration
    buf,            \* pixel buffer: the segments of the series drawn in it
    shown,          \* what the window displays (last buffer presented)
    file,           \* content of pressure_data.csv
    error,          \* the Err main returned or the panic it died of, "none" before
    windowOpen,     \* window.is_open()
    escDown,        \* window.is_key_down(Key::Escape)
    keysPressed,    \* window.get_keys_pressed(KeyRepeat::Yes)
    taken,          \* samples dequeued in the iteration under way
    pushed,         \* samples pushed in the iteration under way
    pushLog,        \* every sample pushed so far, in push order
    sentLog,        \* every value the channel accepted, in send order
    sentAt          \* clock reading at each of those sends, where it is observed

netVars == <<netState, events, sendResult>>
envVars == <<windowOpen, escDown, keysPressed>>
histVars == <<taken, pushed, pushLog>>
sendVars == <<sentLog, sentAt>>
loopVars == <<pc, pressure, data, start_ts, chart_data, buf, shown, file, error>>
vars == <<netState, events, sendResult, chan, rxAlive, pc, pressure, data,
          start_ts, chart_data, buf, shown, file, windowOpen, escDown, keysPressed,
          error, taken, pushed, pushLog, sentLog, sentAt>>

\* ---------------------------------------------------------- pure functions
\* variant: the bytes read most significant first
I32FromBeBytes(b) ==
    (IF b[1] >= 128 THEN b[1] - 256 ELSE b[1]) * 16777216 + b[2] * 65536 + b[3] * 256 + b[4]

\* i32::from_le_bytes([b0, b1, b2, b3]) as f64
I32FromLeBytes(b) ==
    (IF b[4] >= 128 THEN b[4] - 256 ELSE b[4]) * 16777216 + b[3] * 65536 + b[2] * 256 + b[1]

\* bytes.len() == 4
PayloadLenAccepted(b) == Len(b) = 4

\* variant: a rendezvous-like channel of capacity 1
SendBlocksBounded(c) == Len(c) >= 1

\* mpsc::channel() is unbounded: send never waits
SendBlocks(c) == FALSE

\* tx.send(pressure).ok(): the Result is discarded, the thread goes on
SendResultOk(alive) == "running"

\* variant: the Escape key is not looked at
WhileCondNoEscape(open, esc) == open

\* while window.is_open() && !window.is_key_down(Key::Escape)
WhileCond(open, esc) == open /\ ~esc

\* variant: the eviction leaves the epoch alone
PushSampleKeepEpoch(d, s, now, p) ==
    LET s1 == IF Len(d) = 0 THEN now ELSE s
        ev == Len(d) > DATA_LENGTH
        d1 == IF ev THEN Tail(d) ELSE d
    IN  [data |-> Append(d1, [ts |-> now, v |-> p]), start_ts |-> s1]

\* lines 130-139: epoch on first sample, eviction check, push
PushSample(d, s, now, p) ==
    LET s1 == IF Len(d) = 0 THEN now ELSE s
        ev == Len(d) > DATA_LENGTH
        d1 == IF ev THEN Tail(d) ELSE d
        s2 == IF ev THEN d1[1].ts ELSE s1
    IN  [data |-> Append(d1, [ts |-> now, v |-> p]), start_ts |-> s2]

\* variant: only the newest sample is compared with the epoch
DurationFailsNewest(d, s) == d # <<>> /\ d[Len(d)].ts < s

\* d.0.duration_since(start_ts) is Err when d.0 is earlier than start_ts
DurationFails(d, s) == \E i \in 1..Len(d) : d[i].ts < s

\* lines 155-165
ChartData(d, s) == [i \in 1..Len(d) |-> [t |-> d[i].ts - s, p |-> d[i].v]]

\* line 167: chart_data.iter().zip(chart_data.iter().skip(1))
Segments(cd) ==
    IF Len(cd) < 2 THEN <<>>
    ELSE [i \in 1..(Len(cd) - 1) |-> <<cd[i], cd[i + 1]>>]

Digit == <<"0", "1", "2", "3", "4", "5", "6", "7", "8", "9">>

RECURSIVE DigitsOf(_)
DigitsOf(n) ==
    IF n < 10 THEN <<Digit[n + 1]>>
    ELSE Append(DigitsOf(n \div 10), Digit[(n % 10) + 1])

\* f64::to_string of an integral value: no decimal point, sign first
F64ToString(x) == IF x < 0 THEN <<"-">> \o DigitsOf(0 - x) ELSE DigitsOf(x)

\* variant: the newest message is received first
DequeueNewest(c) == [v |-> c[Len(c)], rest |-> SubSeq(c, 1, Len(c) - 1)]

\* variant: the receive empties the channel and keeps the oldest message
DequeueDrain(c) == [v |-> Head(c), rest |-> <<>>]

\* line 124: try_recv on a non-empty channel takes the oldest message
Dequeue(c) == [v |-> Head(c), rest |-> Tail(c)]

\* variant: the first point is left out of the file
CsvRowsSkipFirst(cd) ==
    <<Header>> \o [i \in 1..(Len(cd) - 1) |->
                      <<F64ToString(cd[i + 1].t), F64ToString(cd[i + 1].p)>>]

\* lines 179-183: header, then one record per point of chart_data
CsvRows(cd) ==
    <<Header>> \o [i \in 1..Len(cd) |-> <<F64ToString(cd[i].t), F64ToString(cd[i].p)>>]

\* -------------------------------------------------------------------- Init
Init ==
    /\ netState = "running"
    /\ events = 0
    /\ sendResult = "none"
    /\ chan = <<>>
    /\ rxAlive = TRUE
    /\ pc = "while"
    /\ pressure = NoPressure
    /\ data = <<>>
    /\ start_ts \in Clock
    /\ chart_data = <<>>
    /\ buf = <<>>
    /\ shown = NothingShown
    /\ file = NoFile
    /\ error = "none"
    /\ windowOpen = TRUE
    /\ escDown = FALSE
    /\ keysPressed = {}
    /\ taken = 0
    /\ pushed = 0
    /\ pushLog = <<>>
    /\ sentLog = <<>>
    /\ sentAt = <<>>

\* --------------------------------------------------------- network thread
\* One action is one turn of the `for notification in connection.iter()` loop:
\* the thread's only shared effect is the send, everything else is local to it.

\* lines 69-82: a publish of 4 bytes is received, decoded and sent;
\* stamps is the record of send instants after this send
NetSendWith(p, stamps) ==
    /\ netState = "running"
    /\ events < MaxEvents
    /\ PayloadLenAccepted(p)
    /\ ~SendBlocks(chan)
    /\ chan' = IF rxAlive THEN Append(chan, I32FromLeBytes(p)) ELSE chan
    /\ sentLog' = IF rxAlive THEN Append(sentLog, I32FromLeBytes(p)) ELSE sentLog
    /\ sentAt' = IF rxAlive THEN stamps ELSE sentAt
    /\ sendResult' = IF rxAlive THEN "ok" ELSE "err"
    /\ netState' = SendResultOk(rxAlive)
    /\ events' = events + 1
    /\ UNCHANGED <<rxAlive, loopVars, envVars, histVars>>

\* the send as the program performs it: the thread reads no clock
NetSend(p) == NetSendWith(p, sentAt)

\* the same send, with the clock reading of its instant put on record,
\* for the first MaxStamps sends
NetSendStamped(p) ==
    \E t \in Clock :
        NetSendWith(p, IF Len(sentAt) < MaxStamps THEN Append(sentAt, t) ELSE sentAt)

\* lines 69-83: a publish of any other length is received and dropped
NetDiscard(p) ==
    /\ netState = "running"
    /\ events < MaxEvents
    /\ ~PayloadLenAccepted(p)
    /\ events' = events + 1
    /\ UNCHANGED <<netState, sendResult, chan, rxAlive, loopVars, envVars, histVars, sendVars>>

\* lines 84-86: any other event is received
NetContinue ==
    /\ netState = "running"
    /\ events < MaxEvents
    /\ events' = events + 1
    /\ UNCHANGED <<netState, sendResult, chan, rxAlive, loopVars, envVars, histVars, sendVars>>

\* line 74: the notification is an Err
NetError ==
    /\ netState = "running"
    /\ events < MaxEvents
    /\ events' = events + 1
    /\ UNCHANGED <<netState, sendResult, chan, rxAlive, loopVars, envVars, histVars, sendVars>>

\* ------------------------------------------------------------ render loop
\* variant: `while let`, the channel is tried again after the block
AfterBlockWhileLet == "try_recv"

\* position reached when the `if let Ok(pressure)` block of lines 124-194 ends
AfterBlock == "update"

\* main leaves through `?`, a panic or its return: its locals, rx among them, drop
LeaveMain(to) ==
    /\ pc' = to
    /\ rxAlive' = FALSE
    /\ chan' = <<>>

\* `?` returns the Err from main, expect panics: main is left with the error
Fatal(e) ==
    /\ LeaveMain("fatal")
    /\ error' = e

\* variant: the export error is dropped and the iteration goes on
OnExportErrIgnored == "update"

\* lines 178-185: `?` on the csv calls returns the Err from main
OnExportErr == "fatal"

\* line 123: the condition holds, the body is entered
WhileEnter ==
    /\ pc = "while"
    /\ WhileCond(windowOpen, escDown)
    /\ pc' = "try_recv"
    /\ UNCHANGED <<netVars, sendVars, error, chan, rxAlive, pressure, data, start_ts, chart_data, buf,
                   shown, file, envVars, histVars>>

\* line 123: the condition fails, the loop is left
WhileExit ==
    /\ pc = "while"
    /\ ~WhileCond(windowOpen, escDown)
    /\ pc' = "exited"
    /\ UNCHANGED <<netVars, sendVars, error, chan, rxAlive, pressure, data, start_ts, chart_data, buf,
                   shown, file, envVars, histVars>>

\* lines 199-200: Ok(()) is returned
MainReturn ==
    /\ pc = "exited"
    /\ LeaveMain("returned")
    /\ UNCHANGED <<netVars, sendVars, error, pressure, data, start_ts, chart_data, buf, shown, file,
                   envVars, histVars>>

\* line 124: rx.try_recv() returns Ok(pressure)
TryRecvOk ==
    /\ pc = "try_recv"
    /\ chan # <<>>
    /\ pressure' = Dequeue(chan).v
    /\ chan' = Dequeue(chan).rest
    /\ taken' = taken + 1
    /\ pc' = "push"
    /\ UNCHANGED <<netVars, sendVars, error, rxAlive, data, start_ts, chart_data, buf, shown, file,
                   envVars, pushed, pushLog>>

\* variant: the empty poll clears the pixel buffer
TryRecvEmptyClears ==
    /\ pc = "try_recv"
    /\ chan = <<>>
    /\ pc' = "update"
    /\ buf' = <<>>
    /\ UNCHANGED <<netVars, sendVars, error, chan, rxAlive, pressure, data, start_ts,
                   chart_data, shown, file, envVars, histVars>>

\* variant: the receive waits on an empty channel
TryRecvEmptyWaits ==
    /\ pc = "try_recv"
    /\ chan = <<>>
    /\ FALSE
    /\ UNCHANGED vars

\* line 124: rx.try_recv() returns Err, the block is skipped
TryRecvEmpty ==
    /\ pc = "try_recv"
    /\ chan = <<>>
    /\ pc' = "update"
    /\ UNCHANGED <<netVars, sendVars, error, chan, rxAlive, pressure, data, start_ts, chart_data, buf,
                   shown, file, envVars, histVars>>

\* lines 128-139: clock reading, epoch, eviction check, push
Push ==
    /\ pc = "push"
    /\ \E now \in Clock :
          LET r == PushSample(data, start_ts, now, pressure) IN
          /\ data' = r.data
          /\ start_ts' = r.start_ts
          /\ pushLog' = Append(pushLog, [ts |-> now, v |-> pressure])
    /\ pushed' = pushed + 1
    /\ pressure' = NoPressure
    /\ pc' = "redraw"
    /\ UNCHANGED <<netVars, sendVars, error, chan, rxAlive, chart_data, buf, shown, file, envVars, taken>>

\* lines 141-153: the plotting area is filled and the mesh redrawn
Redraw ==
    /\ pc = "redraw"
    /\ buf' = <<>>
    /\ pc' = "chart_data"
    /\ UNCHANGED <<netVars, sendVars, error, chan, rxAlive, pressure, data, start_ts, chart_data, shown,
                   file, envVars, histVars>>

\* lines 141-153: a drawing call returns Err
RedrawFail ==
    /\ pc = "redraw"
    /\ Fatal("draw")
    /\ UNCHANGED <<netVars, sendVars, pressure, data, start_ts, chart_data, buf, shown, file,
                   envVars, histVars>>

\* lines 155-165: the chart frame is computed
ChartFrame ==
    /\ pc = "chart_data"
    /\ ~DurationFails(data, start_ts)
    /\ chart_data' = ChartData(data, start_ts)
    /\ pc' = "draw_series"
    /\ UNCHANGED <<netVars, sendVars, error, chan, rxAlive, pressure, data, start_ts, buf, shown, file,
                   envVars, histVars>>

\* line 160: expect("Duration calculate failed") panics
ChartFramePanic ==
    /\ pc = "chart_data"
    /\ DurationFails(data, start_ts)
    /\ Fatal("Duration calculate failed")
    /\ UNCHANGED <<netVars, sendVars, pressure, data, start_ts, chart_data, buf, shown, file,
                   envVars, histVars>>

\* lines 167-172: one path element per pair of adjacent points
DrawSeries ==
    /\ pc = "draw_series"
    /\ buf' = Segments(chart_data)
    /\ pc' = "keys"
    /\ UNCHANGED <<netVars, sendVars, error, chan, rxAlive, pressure, data, start_ts, chart_data, shown,
                   file, envVars, histVars>>

\* line 169: draw_series returns Err
DrawSeriesFail ==
    /\ pc = "draw_series"
    /\ Fatal("draw")
    /\ UNCHANGED <<netVars, sendVars, pressure, data, start_ts, chart_data, buf, shown, file,
                   envVars, histVars>>

\* lines 174-193: no S among the pressed keys
KeysNoExport ==
    /\ pc = "keys"
    /\ "S" \notin keysPressed
    /\ pc' = AfterBlock
    /\ chart_data' = <<>>
    /\ UNCHANGED <<netVars, sendVars, error, chan, rxAlive, pressure, data, start_ts, buf, shown, file,
                   envVars, histVars>>

\* lines 177-187: S is pressed, the chart frame is written to the file
KeysExport ==
    /\ pc = "keys"
    /\ "S" \in keysPressed
    /\ file' = CsvRows(chart_data)
    /\ pc' = AfterBlock
    /\ chart_data' = <<>>
    /\ UNCHANGED <<netVars, sendVars, error, chan, rxAlive, pressure, data, start_ts, buf, shown,
                   envVars, histVars>>

\* lines 178-185: from_path, write_record or flush returns Err;
\* from_path leaves the file alone, a later failure leaves a prefix of the rows
KeysExportFail ==
    /\ pc = "keys"
    /\ "S" \in keysPressed
    /\ \/ file' = file
       \/ \E k \in 0..Len(CsvRows(chart_data)) : file' = SubSeq(CsvRows(chart_data), 1, k)
    /\ LeaveMain(OnExportErr)
    /\ error' = "csv"
    /\ UNCHANGED <<netVars, sendVars, pressure, data, start_ts, chart_data, buf, shown,
                   envVars, histVars>>

\* lines 195-197: the buffer is presented and the window processes its events,
\* which is when minifb refreshes its open flag and key state; then the sleep
Update ==
    /\ pc = "update"
    /\ shown' = buf
    /\ windowOpen' \in BOOLEAN
    /\ escDown' \in BOOLEAN
    /\ keysPressed' \in SUBSET Keys
    /\ pc' = "while"
    /\ taken' = 0
    /\ pushed' = 0
    /\ UNCHANGED <<netVars, sendVars, error, chan, rxAlive, pressure, data, start_ts, chart_data, buf,
                   file, pushLog>>

\* line 195: update_with_buffer returns Err
UpdateFail ==
    /\ pc = "update"
    /\ Fatal("window")
    /\ UNCHANGED <<netVars, sendVars, pressure, data, start_ts, chart_data, buf, shown, file,
                   envVars, histVars>>

Next ==
    \/ \E p \in Payloads : NetSend(p)
    \/ \E p \in Payloads : NetDiscard(p)
    \/ NetContinue
    \/ NetError
    \/ WhileEnter
    \/ WhileExit
    \/ MainReturn
    \/ TryRecvOk
    \/ TryRecvEmpty
    \/ Push
    \/ Redraw
    \/ RedrawFail
    \/ ChartFrame
    \/ ChartFramePanic
    \/ DrawSeries
    \/ DrawSeriesFail
    \/ KeysNoExport
    \/ KeysExport
    \/ KeysExportFail
    \/ Update
    \/ UpdateFail

Spec == Init /\ [][Next]_vars

\* the steps of the render loop and of main around it
LoopNext ==
    \/ WhileEnter
    \/ WhileExit
    \/ MainReturn
    \/ TryRecvOk
    \/ TryRecvEmpty
    \/ Push
    \/ Redraw
    \/ RedrawFail
    \/ ChartFrame
    \/ ChartFramePanic
    \/ DrawSeries
    \/ DrawSeriesFail
    \/ KeysNoExport
    \/ KeysExport
    \/ KeysExportFail
    \/ Update
    \/ UpdateFail

\* the main thread is scheduled: a loop step that stays possible is taken
FairSpec == Spec /\ WF_vars(LoopNext)

\* the program with the instant of every send observed
NextStamp ==
    \/ \E p \in Payloads : NetSendStamped(p)
    \/ \E p \in Payloads : NetDiscard(p)
    \/ NetContinue
    \/ NetError
    \/ WhileEnter
    \/ WhileExit
    \/ MainReturn
    \/ TryRecvOk
    \/ TryRecvEmpty
    \/ Push
    \/ Redraw
    \/ RedrawFail
    \/ ChartFrame
    \/ ChartFramePanic
    \/ DrawSeries
    \/ DrawSeriesFail
    \/ KeysNoExport
    \/ KeysExport
    \/ KeysExportFail
    \/ Update
    \/ UpdateFail

SpecStamp == Init /\ [][NextStamp]_vars

\* ------------------------------------------------- blocking-wait variant
\* The second variant of the program waits in rx.recv() instead of polling:
\* the loop stays at the receive until a message is queued.

\* variant: the receive gives up on an empty channel
RecvBlockingOrSkip == TryRecvOk \/ TryRecvEmpty

\* rx.recv() returns Ok(pressure) once a message is queued
RecvBlocking == TryRecvOk

NextBlocking ==
    \/ \E p \in Payloads : NetSend(p)
    \/ \E p \in Payloads : NetDiscard(p)
    \/ NetContinue
    \/ NetError
    \/ WhileEnter
    \/ WhileExit
    \/ MainReturn
    \/ RecvBlocking
    \/ Push
    \/ Redraw
    \/ RedrawFail
    \/ ChartFrame
    \/ ChartFramePanic
    \/ DrawSeries
    \/ DrawSeriesFail
    \/ KeysNoExport
    \/ KeysExport
    \/ KeysExportFail
    \/ Update
    \/ UpdateFail

SpecBlocking == Init /\ [][NextBlocking]_vars

Terminated == pc \in {"exited", "returned"}

InFrame == pc \in {"draw_series", "keys"}

\* ------------------------------------------------------------------ claims
\* C1: after each push completes the buffer holds at most DATA_LENGTH samples.
C1_LengthAtMostCapacity == Len(data) <= DATA_LENGTH

StrictlyIncreasing(log) == \A i \in 1..(Len(log) - 1) : log[i].ts < log[i + 1].ts

LastN(log, n) == SubSeq(log, Len(log) - n + 1, Len(log))

\* C2: after DATA_LENGTH+1 pushes with strictly increasing timestamps the
\* buffer holds exactly DATA_LENGTH samples, the oldest being the second one
\* pushed, whose timestamp is the epoch; after any k > DATA_LENGTH pushes the
\* buffer is the last DATA_LENGTH samples pushed, in push order.
C2_LastNSamples ==
    /\ (Len(pushLog) = DATA_LENGTH + 1 /\ StrictlyIncreasing(pushLog))
          => /\ Len(data) = DATA_LENGTH
             /\ data[1] = pushLog[2]
             /\ start_ts = pushLog[2].ts
    /\ Len(pushLog) > DATA_LENGTH => data = LastN(pushLog, DATA_LENGTH)

\* C3: whenever the buffer is non-empty the epoch start_ts is the timestamp of
\* the front sample, and the first point of a chart frame has elapsed time 0.
C3_EpochIsFront ==
    /\ data # <<>> => start_ts = data[1].ts
    /\ (InFrame /\ data # <<>>) => (Len(chart_data) = Len(data) /\ chart_data[1].t = 0)

\* C3 witness: a frame computed after a front eviction
C3_Witness ==
    /\ pc = "keys"
    /\ Len(pushLog) > Len(data)
    /\ start_ts = data[1].ts
    /\ chart_data[1].t = 0

\* C4: in every chart frame produced, the buffer's timestamps and the frame's
\* elapsed times are non-decreasing in sample order, whatever the clock reads.
C4_Monotone ==
    InFrame =>
        /\ \A i \in 1..(Len(data) - 1) : data[i].ts <= data[i + 1].ts
        /\ \A i \in 1..(Len(chart_data) - 1) : chart_data[i].t <= chart_data[i + 1].t

\* C5: an iteration dequeues at most one sample and pushes at most one sample,
\* and no step shortens the channel of a live receiver by more than one.
C5_OnePerIteration ==
    /\ [](taken <= 1 /\ pushed <= 1)
    /\ [][rxAlive' => Len(chan') >= Len(chan) - 1]_vars

\* C5 witness: one sample of a burst taken and pushed, two more still queued
C5_Witness ==
    /\ pc = "update"
    /\ taken = 1
    /\ pushed = 1
    /\ Len(chan) >= 2

\* C6: while the connection delivers notifications, a 4-byte publish can be
\* received and sent in every state, whatever the channel holds and wherever
\* the render loop is; a send to a dropped receiver is ignored: it queues
\* nothing and leaves the network thread running.
C6_SendNeverWaits ==
    /\ [](events < MaxEvents => \A p \in Payloads : Len(p) = 4 => ENABLED NetSend(p))
    /\ [](netState = "running")
    /\ [][(~rxAlive /\ events' # events) => (chan' = chan /\ netState' = "running")]_vars

\* C6 witness: a send was made after the receiver was dropped
C6_Witness ==
    /\ sendResult = "err"
    /\ ~rxAlive
    /\ pc = "returned"
    /\ netState = "running"

\* little-endian two's complement bytes of a 32-bit integer
LeBytesOf(v) ==
    <<v % 256, (v \div 256) % 256, (v \div 65536) % 256, (v \div 16777216) % 256>>

\* C7: a turn of the network thread on a publish of 4 bytes queues exactly
\* one value, the little-endian signed 32-bit integer of the payload (100000
\* for the bytes of 100000); a turn on a payload of any other length, on
\* another event or on an error queues nothing; the thread keeps running.
C7_Decode ==
    [][/\ \A p \in Payloads :
             (NetSend(p) \/ NetDiscard(p)) =>
                IF Len(p) = 4 /\ rxAlive
                THEN /\ Len(chan') = Len(chan) + 1
                     /\ SubSeq(chan', 1, Len(chan)) = chan
                     /\ LeBytesOf(chan'[Len(chan')]) = p
                     /\ p = <<160, 134, 1, 0>> => chan'[Len(chan')] = 100000
                ELSE chan' = chan
       /\ (NetContinue \/ NetError) => chan' = chan
       /\ events' # events => netState' = "running"]_vars

\* C7 witness: the bytes of 100000 were decoded and queued as 100000
C7_Witness ==
    /\ sendResult = "ok"
    /\ chan # <<>>
    /\ chan[Len(chan)] = 100000

\* C8: the loop starts running; it leaves to TERMINATED exactly from the loop
\* condition when the window is closed or Escape is down; TERMINATED is
\* absorbing and nothing is dequeued, pushed, exported or presented in it.
C8_Termination ==
    /\ pc = "while"
    /\ [][/\ (~Terminated /\ Terminated') => (pc = "while" /\ (~windowOpen \/ escDown))
          /\ (pc = "while" /\ (~windowOpen \/ escDown) /\ pc' # pc) => pc' = "exited"
          /\ Terminated =>
                /\ Terminated'
                /\ pressure' = pressure /\ taken' = taken
                /\ data' = data /\ pushLog' = pushLog
                /\ file' = file
                /\ shown' = shown /\ buf' = buf]_vars

\* C8 witness: the loop has terminated on Escape with samples still queued
C8_Witness ==
    /\ pc = "exited"
    /\ escDown
    /\ windowOpen
    /\ chan # <<>>

\* C9: every iteration polls the export key before it presents, with or
\* without a sample, and an S press seen by the poll exports the chart frame.
C9_PollEveryIteration ==
    /\ [][(pc # "update" /\ pc' = "update") => pc = "keys"]_vars
    /\ [][(pc = "keys" /\ "S" \in keysPressed /\ pc' = "update")
              => file' = CsvRows(chart_data)]_vars

\* C10: an iteration that runs with S pressed and an empty buffer has written
\* the header-only file by the time it presents, and the loop keeps running.
C10_EmptyExportHeaderOnly ==
    (pc = "update" /\ "S" \in keysPressed /\ data = <<>>) => file = <<Header>>

InFatal == pc = "fatal"

DigitValue(c) == CHOOSE d \in 0..9 : Digit[d + 1] = c

RECURSIVE ParseNat(_)
ParseNat(str) ==
    IF Len(str) = 1 THEN DigitValue(str[1])
    ELSE 10 * ParseNat(SubSeq(str, 1, Len(str) - 1)) + DigitValue(str[Len(str)])

\* the number a decimal text denotes
ParseF64(str) == IF str[1] = "-" THEN 0 - ParseNat(Tail(str)) ELSE ParseNat(str)

\* C11: a successful export leaves in the file the header and then one row per
\* sample of the buffer, in buffer order, the row of a sample reading as its
\* timestamp minus the epoch and its value; nothing of the old content stays.
C11_ExportRows ==
    [][(pc = "keys" /\ "S" \in keysPressed /\ pc' = "update") =>
          /\ Len(file') = Len(data) + 1
          /\ file'[1] = Header
          /\ \A i \in 1..Len(data) :
                /\ ParseF64(file'[i + 1][1]) = data[i].ts - start_ts
                /\ ParseF64(file'[i + 1][2]) = data[i].v]_vars

\* C11 witness: an export of a buffer of two or more samples is in the file
C11_Witness ==
    /\ pc = "update"
    /\ pushed = 1
    /\ "S" \in keysPressed
    /\ Len(data) >= 2
    /\ Len(file) = Len(data) + 1
    /\ file[1] = Header
    /\ ParseF64(file[Len(file)][2]) = data[Len(data)].v

\* C12: a failed export ends main with the error: the step that fails is the
\* key step, it presents nothing, and from the fatal position nothing is
\* dequeued, pushed, drawn, exported or presented any more.
C12_ExportFailureFatal ==
    /\ [](error = "csv" => pc = "fatal")
    /\ [][(error # "csv" /\ error' = "csv") =>
              (pc = "keys" /\ "S" \in keysPressed /\ shown' = shown)]_vars
    /\ [][pc = "fatal" =>
              /\ pc' = "fatal"
              /\ UNCHANGED <<shown, buf, file, data, start_ts, pushLog, taken, error>>]_vars

\* C12 witness: main has ended on an export error after a frame was shown
C12_Witness ==
    /\ pc = "fatal"
    /\ error = "csv"
    /\ shown # NothingShown

C14_StampAtDecode ==
    \A i \in 1..Len(pushLog) : i <= Len(sentAt) => pushLog[i].ts = sentAt[i]

\* C15: the frame computation panics exactly when a sample of the buffer is
\* earlier than the epoch; the panic draws no series, exports and presents
\* nothing, and ends main for good.
C15_DurationPanic ==
    /\ [][(pc = "chart_data" /\ pc' # pc) =>
              /\ (\E i \in 1..Len(data) : data[i].ts < start_ts)
                    <=> (pc' = "fatal" /\ error' = "Duration calculate failed")
              /\ (\A i \in 1..Len(data) : data[i].ts >= start_ts)
                    <=> (pc' = "draw_series" /\ error' = "none")]_vars
    /\ [][error' = "Duration calculate failed" =>
              UNCHANGED <<buf, file, shown, data, start_ts, pushLog>>]_vars
    /\ [](error = "Duration calculate failed" => pc = "fatal")

\* C15 witness: the panic happened on a sample behind the front that is
\* earlier than the epoch, the newest sample being no earlier
C15_Witness ==
    /\ pc = "fatal"
    /\ error = "Duration calculate failed"
    /\ Len(data) >= 3
    /\ data[2].ts < start_ts
    /\ data[Len(data)].ts >= start_ts

\* C16: the values pushed so far are, in order, the first values the channel
\* accepted, and the buffer holds the latest of them: a contiguous run of the
\* sent sequence, short only of what was evicted from its front.
C16_FifoRun ==
    LET e == Len(pushLog) - Len(data) IN
    /\ e >= 0
    /\ Len(pushLog) <= Len(sentLog)
    /\ \A i \in 1..Len(pushLog) : pushLog[i].v = sentLog[i]
    /\ \A i \in 1..Len(data) : data[i].v = sentLog[e + i]

\* C16 witness: after an eviction the buffer holds both values
C16_Witness ==
    /\ Len(pushLog) > Len(data)
    /\ \E i, j \in 1..Len(data) : data[i].v # data[j].v
    /\ pc = "redraw"

\* C17: a turn of the network thread leaves the buffer, the epoch, the pixel
\* buffer, the window and the file alone; while the receiver lives the channel
\* changes only by a send of the network thread or by the loop's dequeue of
\* its oldest message.
C17_ChannelOnly ==
    /\ [][events' # events =>
              UNCHANGED <<pc, pressure, data, start_ts, chart_data, buf, shown, file,
                          error, windowOpen, escDown, keysPressed, rxAlive>>]_vars
    /\ [][(chan' # chan /\ rxAlive') =>
              \/ (events' # events /\ Len(chan') = Len(chan) + 1
                     /\ SubSeq(chan', 1, Len(chan)) = chan)
              \/ (events' = events /\ pc = "try_recv" /\ chan' = Tail(chan))]_vars

\* C17 witness: a frame is drawn and messages are queued behind it
C17_Witness ==
    /\ sendResult = "ok"
    /\ pc = "keys"
    /\ buf # <<>>
    /\ Len(chan) >= 2

\* C18: an iteration that finds the channel empty goes straight to the present
\* step, changes neither buffer, epoch nor pixel buffer, presents the pixel
\* buffer again and returns to the loop condition; neither step can be held up.
C18_EmptyIteration ==
    /\ [][(pc = "try_recv" /\ chan = <<>> /\ pc' # pc) =>
              (pc' = "update" /\ UNCHANGED <<data, start_ts, buf, shown>>)]_vars
    /\ [][(pc = "update" /\ taken = 0 /\ pc' = "while") =>
              (shown' = buf /\ UNCHANGED <<data, start_ts, buf>>)]_vars
    /\ []((pc = "update" /\ taken = 0 /\ shown # NothingShown) => buf = shown)
    /\ []((pc = "try_recv" /\ chan = <<>>) => ENABLED TryRecvEmpty)
    /\ [](pc = "update" => ENABLED Update)

\* C18 witness: an empty iteration is about to present a drawn series again
C18_Witness ==
    /\ pc = "update"
    /\ taken = 0
    /\ buf # <<>>
    /\ shown = buf
    /\ chan = <<>>

\* C19: under weak fairness of the loop, the k-th value the channel accepted
\* is eventually the k-th sample pushed, unless the loop terminates or dies.
C19_EventuallyPushed ==
    \A k \in 1..MaxEvents :
        (Len(sentLog) >= k) ~> (Len(pushLog) >= k \/ Terminated \/ InFatal)

\* C19 witness: a sample was pushed while later ones were queued behind it
C19_Witness ==
    /\ Len(pushLog) >= 2
    /\ Len(chan) >= 1
    /\ pc = "redraw"

\* C20: under weak fairness of the loop, a closed window or a held Escape
\* leads to TERMINATED, and the loop never stays at the receive, whatever the
\* channel holds and whether or not the network thread still sends.
C20_EventuallyTerminated ==
    /\ (~windowOpen \/ escDown) ~> Terminated
    /\ (pc = "try_recv") ~> (pc # "try_recv")

\* C20 witness: the loop terminated on a closed window, the channel empty and
\* the network thread silent
C20_Witness ==
    /\ pc = "exited"
    /\ ~windowOpen
    /\ chan = <<>>
    /\ events = MaxEvents

====
